---- MODULE Spec2Model ----
(***************************************************************************)
(* Process-tree index of sen/tui/widgets/info.py: Process, ProcessList     *)
(* and ProcessTreeBackend.                                                 *)
(*                                                                         *)
(* A row of container.top() is a dict; here it is a function whose domain  *)
(* is the set of keys that are present ("PID", "PPID").  The code never    *)
(* converts the values, it only hashes and compares them, so a value is an *)
(* integer token: 0..MaxPid stand for integer-parseable values and NotInt  *)
(* stands for a value that is not integer-parseable.  The COMMAND field is *)
(* only read by __str__ (and by the pprint of _nesting in __init__); every *)
(* row is taken to carry it and it is left out.                            *)
(*                                                                         *)
(* A Process object has no __eq__, so list.index() and == compare object   *)
(* identity: a Process is modelled with an identity field obj = <<owner,   *)
(* row>>, owner being the ProcessList instance that created it (0 for an   *)
(* object created by somebody else).                                       *)
(***************************************************************************)
EXTENDS Integers, Sequences, FiniteSets

\* ---------------------------------------------------------------- bounds
\* queries on a ProcessList: pids 1..MaxPid, at most MaxLen rows
MaxPid == 2
MaxLen == 3
\* the walk over a backend: pids 1..WalkPid, at most WalkLen rows
WalkPid == 3
WalkLen == 3
\* a ProcessList and another one built meanwhile
FramePid == 1
FrameLen == 1
OtherLen == 1
\* raw rows
RawMaxPid == 1
RawLen == 2

\* a value that is not integer-parseable (e.g. "abc")
NotInt == -1

VARIABLES data, heap, root, pc, last, walk

vars == <<data, heap, root, pc, last, walk>>

\* ---------------------------------------------------------------- values
\* Python's None
None == [none |-> TRUE]

\* a method returned v
Return(v) == [exc |-> "", ret |-> v]

\* a method raised exception e
Raise(e) == [exc |-> e, ret |-> None]

IsIntParseable(v) == v >= 0

\* ---------------------------------------------------------------- Process
Process(x, owner, i) == [obj |-> <<owner, i>>, data |-> x]

\* self.data[k] raises KeyError iff the key is absent
HasKey(process, k) == k \in DOMAIN process.data

pid(process) == process.data.PID

ppid(process) == process.data.PPID

\* ---------------------------------------------------------------- ProcessList
\* variant: the bucket is filled with insert(0, x)
bucket_prepend(children, x) == <<x>> \o children

\* self._nesting[x.ppid].append(x)
bucket_append(children, x) == Append(children, x)

\* for x in self.data: try: self._nesting[x.ppid].append(x) except KeyError: pass
RECURSIVE nesting_loop(_, _, _)
nesting_loop(procs, i, nesting) ==
    IF i > Len(procs) THEN nesting
    ELSE LET x == procs[i]
         IN  nesting_loop(procs, i + 1,
                 IF HasKey(x, "PPID") /\ ppid(x) \in DOMAIN nesting
                 THEN [nesting EXCEPT ![ppid(x)] = bucket_append(@, x)]
                 ELSE nesting)

\* {x.pid: x for x in self.data}: a later row replaces an earlier one
pid_index_of(procs) ==
    [k \in {pid(procs[i]) : i \in 1..Len(procs)} |->
        procs[CHOOSE i \in 1..Len(procs) :
                 /\ pid(procs[i]) = k
                 /\ \A j \in 1..Len(procs) : pid(procs[j]) = k => j <= i]]

\* ProcessList.__init__(self, data); self is the identity of the new instance
ProcessList_init(rows, self) ==
    LET procs == [i \in 1..Len(rows) |-> Process(rows[i], self, i)]
    IN  IF \E i \in 1..Len(procs) : ~HasKey(procs[i], "PID")
        THEN Raise("KeyError")
        ELSE Return([data |-> procs,
                     _nesting |-> nesting_loop(procs, 1,
                                     [k \in {pid(procs[i]) : i \in 1..Len(procs)} |-> <<>>]),
                     _pids |-> [i \in 1..Len(procs) |-> pid(procs[i])],
                     _pid_index |-> pid_index_of(procs)])

\* variant: _nesting is a class attribute, shared by every instance
ProcessList_new_shared(h, self, obj) ==
    [k \in DOMAIN h |->
        IF k = self THEN obj
        ELSE IF h[k] = None THEN None
        ELSE [h[k] EXCEPT !._nesting = obj._nesting]]

\* the instance attributes after ProcessList(data) ran as instance self:
\* every attribute is assigned on self, no other instance is touched
ProcessList_new(h, self, obj) == [h EXCEPT ![self] = obj]

\* x in self._pids
InPids(pl, v) == \E i \in 1..Len(pl._pids) : pl._pids[i] = v

\* variant: Process compares by pid, index() finds the first equal pid
index_by_pid(children, process) ==
    IF \E i \in 1..Len(children) :
          HasKey(process, "PID") /\ pid(children[i]) = pid(process)
    THEN CHOOSE i \in 1..Len(children) :
            /\ pid(children[i]) = pid(process)
            /\ \A j \in 1..(i - 1) : pid(children[j]) # pid(process)
    ELSE 0

\* children.index(process): position of the first element that is the same
\* object, 0 when list.index raises ValueError
index(children, process) ==
    IF \E i \in 1..Len(children) : children[i].obj = process.obj
    THEN CHOOSE i \in 1..Len(children) :
            /\ children[i].obj = process.obj
            /\ \A j \in 1..(i - 1) : children[j].obj # process.obj
    ELSE 0

get_parent_process(pl, process) ==
    IF ~HasKey(process, "PPID") THEN Raise("KeyError")
    ELSE IF ppid(process) \in DOMAIN pl._pid_index
         THEN Return(pl._pid_index[ppid(process)])
         ELSE Return(None)

\* [x for x in self.data if x.ppid not in self._pids]
root_candidates(pl) ==
    SelectSeq(pl.data, LAMBDA x : ~InPids(pl, ppid(x)))

\* variant: root_process[-1]
last_of(root_process) == root_process[Len(root_process)]

\* root_process[0]
first_of(root_process) == root_process[1]

get_root_process(pl) ==
    IF \E i \in 1..Len(pl.data) : ~HasKey(pl.data[i], "PPID")
    THEN Raise("KeyError")
    ELSE IF Len(root_candidates(pl)) = 0
         THEN Raise("IndexError")
         ELSE Return(first_of(root_candidates(pl)))

\* variant: the first child is read at [1] instead of [0]
get_first_child_off_by_one(pl, process) ==
    IF ~HasKey(process, "PID") THEN Return(None)
    ELSE IF pid(process) \notin DOMAIN pl._nesting THEN Return(None)
    ELSE IF Len(pl._nesting[pid(process)]) < 2 THEN Return(None)
    ELSE Return(pl._nesting[pid(process)][2])

\* variant: the first child is read at [-1]
get_first_child_is_last(pl, process) ==
    IF ~HasKey(process, "PID") THEN Return(None)
    ELSE IF pid(process) \notin DOMAIN pl._nesting THEN Return(None)
    ELSE IF Len(pl._nesting[pid(process)]) = 0 THEN Return(None)
    ELSE Return(pl._nesting[pid(process)][Len(pl._nesting[pid(process)])])

get_first_child_process(pl, process) ==
    IF ~HasKey(process, "PID") THEN Return(None)
    ELSE IF pid(process) \notin DOMAIN pl._nesting THEN Return(None)
    ELSE IF Len(pl._nesting[pid(process)]) = 0 THEN Return(None)
    ELSE Return(pl._nesting[pid(process)][1])

get_last_child_process(pl, process) ==
    IF ~HasKey(process, "PID") THEN Return(None)
    ELSE IF pid(process) \notin DOMAIN pl._nesting THEN Return(None)
    ELSE IF Len(pl._nesting[pid(process)]) = 0 THEN Return(None)
    ELSE Return(pl._nesting[pid(process)][Len(pl._nesting[pid(process)])])

\* variant: the index of the next sibling wraps around the bucket
get_next_sibling_wrapping(pl, process) ==
    IF ~HasKey(process, "PPID") THEN Raise("KeyError")
    ELSE LET children == IF ppid(process) \in DOMAIN pl._nesting
                         THEN pl._nesting[ppid(process)] ELSE <<>>
         IN  IF Len(children) <= 0 THEN Return(None)
             ELSE IF index(children, process) = 0 THEN Raise("ValueError")
             ELSE Return(children[(index(children, process) % Len(children)) + 1])

get_next_sibling(pl, process) ==
    IF ~HasKey(process, "PPID") THEN Raise("KeyError")
    ELSE LET children == IF ppid(process) \in DOMAIN pl._nesting
                         THEN pl._nesting[ppid(process)] ELSE <<>>
         IN  IF Len(children) <= 0 THEN Return(None)
             ELSE IF index(children, process) = 0 THEN Raise("ValueError")
             ELSE IF index(children, process) + 1 > Len(children) THEN Return(None)
             ELSE Return(children[index(children, process) + 1])

get_prev_sibling(pl, process) ==
    IF ~HasKey(process, "PPID") THEN Raise("KeyError")
    ELSE LET children == IF ppid(process) \in DOMAIN pl._nesting
                         THEN pl._nesting[ppid(process)] ELSE <<>>
         IN  IF Len(children) <= 0 THEN Return(None)
             ELSE IF index(children, process) = 0 THEN Raise("ValueError")
             ELSE IF index(children, process) - 1 < 1 THEN Return(None)
             ELSE Return(children[index(children, process) - 1])

\* ---------------------------------------------------------------- ProcessTreeBackend
\* Tree API methods the walk uses: each forwards to the ProcessList
parent_position(pl, pos) == get_parent_process(pl, pos)

first_child_position(pl, pos) == get_first_child_process(pl, pos)

next_sibling_position(pl, pos) == get_next_sibling(pl, pos)

\* ---------------------------------------------------------------- inputs
\* rows of container.top() with both keys present and integer-parseable
Rows(m) == [PID : 1..m, PPID : 0..m]

\* rows as they may arrive: a key may be absent, a value may be NotInt
RawRows ==
    LET P == (1..RawMaxPid) \cup {NotInt}
        Q == (0..RawMaxPid) \cup {NotInt}
    IN  [PID : P, PPID : Q] \cup [PID : P] \cup [PPID : Q] \cup {<<>>}

Snapshots(R, n) == UNION {[1..k -> R] : k \in 0..n}

\* Process objects that belong to no ProcessList
Foreign == {Process(x, 0, 0) : x \in Rows(MaxPid)}

\* the Process objects of the instances alive in h
Records(h) ==
    UNION {{h[k].data[i] : i \in 1..Len(h[k].data)} : k \in {j \in DOMAIN h : h[j] # None}}

\* every object a caller may pass as a position
Positions(h) == Foreign \cup Records(h)

NoCall == [op |-> "", arg |-> None, exc |-> "", ret |-> None]

Called(op, arg, res) == [op |-> op, arg |-> arg, exc |-> res.exc, ret |-> res.ret]

NoWalk == [pc |-> "idle", pos |-> None, cur |-> None, visited |-> <<>>, steps |-> 0]

\* ---------------------------------------------------------------- Init
InitRest ==
    /\ heap = [k \in 1..2 |-> None]
    /\ root = None
    /\ pc = "new"
    /\ last = NoCall
    /\ walk = NoWalk

Init == data \in Snapshots(Rows(MaxPid), MaxLen) /\ InitRest

InitWalk == data \in Snapshots(Rows(WalkPid), WalkLen) /\ InitRest

InitFrame == data \in Snapshots(Rows(FramePid), FrameLen) /\ InitRest

InitRaw == data \in Snapshots(RawRows, RawLen) /\ InitRest

\* ---------------------------------------------------------------- actions
\* ProcessList(data), used on its own
ProcessList_create ==
    /\ pc = "new"
    /\ LET res == ProcessList_init(data, 1)
       IN  IF res.exc # ""
           THEN /\ pc' = "failed"
                /\ last' = Called("ProcessList", None, res)
                /\ heap' = heap
           ELSE /\ pc' = "ready"
                /\ last' = Called("ProcessList", None, Return(None))
                /\ heap' = ProcessList_new(heap, 1, res.ret)
    /\ UNCHANGED <<data, root, walk>>

\* ProcessTreeBackend(data): builds the ProcessList, then looks the root up;
\* an exception of either step leaves no backend behind
ProcessTreeBackend_init ==
    /\ pc = "new"
    /\ LET res == ProcessList_init(data, 1)
           r   == get_root_process(res.ret)
       IN  IF res.exc # ""
           THEN /\ pc' = "failed"
                /\ last' = Called("ProcessTreeBackend", None, res)
                /\ heap' = heap
                /\ root' = root
           ELSE IF r.exc # ""
           THEN /\ pc' = "failed"
                /\ last' = Called("ProcessTreeBackend", None, r)
                /\ heap' = heap
                /\ root' = root
           ELSE /\ pc' = "tree"
                /\ last' = Called("ProcessTreeBackend", None, Return(None))
                /\ heap' = ProcessList_new(heap, 1, res.ret)
                /\ root' = r.ret
    /\ UNCHANGED <<data, walk>>

\* a second ProcessList built from another snapshot
BuildOther ==
    /\ pc = "ready"
    /\ \E rows \in Snapshots(Rows(FramePid), OtherLen) :
          LET res == ProcessList_init(rows, 2)
          IN  /\ res.exc = ""
              /\ heap' = ProcessList_new(heap, 2, res.ret)
    /\ UNCHANGED <<data, root, pc, last, walk>>

Call_get_root_process ==
    /\ pc = "ready"
    /\ last' = Called("get_root_process", None, get_root_process(heap[1]))
    /\ pc' = "returned"
    /\ UNCHANGED <<data, heap, root, walk>>

Call_get_parent_process ==
    /\ pc = "ready"
    /\ \E process \in Positions(heap) :
          last' = Called("get_parent_process", process, get_parent_process(heap[1], process))
    /\ pc' = "returned"
    /\ UNCHANGED <<data, heap, root, walk>>

Call_get_first_child_process ==
    /\ pc = "ready"
    /\ \E process \in Positions(heap) :
          last' = Called("get_first_child_process", process,
                         get_first_child_process(heap[1], process))
    /\ pc' = "returned"
    /\ UNCHANGED <<data, heap, root, walk>>

Call_get_last_child_process ==
    /\ pc = "ready"
    /\ \E process \in Positions(heap) :
          last' = Called("get_last_child_process", process,
                         get_last_child_process(heap[1], process))
    /\ pc' = "returned"
    /\ UNCHANGED <<data, heap, root, walk>>

Call_get_next_sibling ==
    /\ pc = "ready"
    /\ \E process \in Positions(heap) :
          last' = Called("get_next_sibling", process, get_next_sibling(heap[1], process))
    /\ pc' = "returned"
    /\ UNCHANGED <<data, heap, root, walk>>

Call_get_prev_sibling ==
    /\ pc = "ready"
    /\ \E process \in Positions(heap) :
          last' = Called("get_prev_sibling", process, get_prev_sibling(heap[1], process))
    /\ pc' = "returned"
    /\ UNCHANGED <<data, heap, root, walk>>

\* the caller takes the result and is ready for the next query
Resume ==
    /\ pc = "returned"
    /\ pc' = "ready"
    /\ last' = NoCall
    /\ UNCHANGED <<data, heap, root, walk>>

\* ---------------------------------------------------------------- the walk
\* The depth-first walk a tree view makes over the Tree API: from a position
\* take the first child; without one the next sibling; without one back up
\* through the parents until one of them has a next sibling.  One action per
\* Tree API step; steps counts them.
Visit(w, p) ==
    [w EXCEPT !.pc = "descend", !.pos = p, !.cur = p,
              !.visited = Append(@, p), !.steps = @ + 1]

Failed(w) == [w EXCEPT !.pc = "raised", !.steps = @ + 1]

WalkOn ==
    /\ pc = "tree"
    /\ walk.steps <= 3 * Len(data)
    /\ Len(walk.visited) <= Len(data)

WalkStart ==
    /\ pc = "tree"
    /\ walk.pc = "idle"
    /\ walk' = [pc |-> "descend", pos |-> root, cur |-> root,
                visited |-> <<root>>, steps |-> 0]
    /\ UNCHANGED <<data, heap, root, pc, last>>

WalkFirstChild ==
    /\ WalkOn
    /\ walk.pc = "descend"
    /\ LET c == first_child_position(heap[1], walk.pos)
       IN  walk' = IF c.exc # "" THEN Failed(walk)
                   ELSE IF c.ret # None THEN Visit(walk, c.ret)
                   ELSE [walk EXCEPT !.pc = "sibling", !.steps = @ + 1]
    /\ UNCHANGED <<data, heap, root, pc, last>>

WalkNextSibling ==
    /\ WalkOn
    /\ walk.pc = "sibling"
    /\ LET s == next_sibling_position(heap[1], walk.pos)
       IN  walk' = IF s.exc # "" THEN Failed(walk)
                   ELSE IF s.ret # None THEN Visit(walk, s.ret)
                   ELSE [walk EXCEPT !.pc = "up", !.cur = walk.pos, !.steps = @ + 1]
    /\ UNCHANGED <<data, heap, root, pc, last>>

WalkUp ==
    /\ WalkOn
    /\ walk.pc = "up"
    /\ LET parent == parent_position(heap[1], walk.cur)
           s == next_sibling_position(heap[1], parent.ret)
       IN  walk' = IF parent.exc # "" THEN Failed(walk)
                   ELSE IF parent.ret = None
                        THEN [walk EXCEPT !.pc = "done", !.steps = @ + 1]
                   ELSE IF s.exc # "" THEN Failed(walk)
                   ELSE IF s.ret # None THEN Visit(walk, s.ret)
                   ELSE [walk EXCEPT !.cur = parent.ret, !.steps = @ + 1]
    /\ UNCHANGED <<data, heap, root, pc, last>>

\* ---------------------------------------------------------------- specifications
Next ==
    \/ ProcessList_create
    \/ ProcessTreeBackend_init
    \/ Call_get_root_process
    \/ Call_get_parent_process
    \/ Call_get_first_child_process
    \/ Call_get_last_child_process
    \/ Call_get_next_sibling
    \/ Call_get_prev_sibling
    \/ Resume

NextWalk ==
    \/ ProcessTreeBackend_init
    \/ WalkStart
    \/ WalkFirstChild
    \/ WalkNextSibling
    \/ WalkUp

NextFrame ==
    \/ ProcessList_create
    \/ BuildOther
    \/ Call_get_root_process
    \/ Call_get_parent_process
    \/ Call_get_first_child_process
    \/ Call_get_last_child_process
    \/ Call_get_next_sibling
    \/ Call_get_prev_sibling
    \/ Resume

\* well-typed snapshots: a ProcessList or a backend is built, queries on the
\* ProcessList
Spec == Init /\ [][Next]_vars

\* well-typed snapshots: a backend is built and walked
SpecWalk == InitWalk /\ [][NextWalk]_vars

\* raw snapshots: rows with absent keys and values that are not integers
SpecRaw == InitRaw /\ [][Next]_vars

\* a ProcessList, queries on it, and other ProcessLists built meanwhile
SpecFrame == InitFrame /\ [][NextFrame]_vars

TypeOK ==
    /\ pc \in {"new", "ready", "returned", "tree", "failed"}
    /\ walk.pc \in {"idle", "descend", "sibling", "up", "done", "raised"}
    /\ last.exc \in {"", "KeyError", "IndexError", "ValueError"}

\* ---------------------------------------------------------------- properties
\* what the snapshot itself says, read from the rows and not from the index
RowsOf(p) == {i \in 1..Len(data) : "PPID" \in DOMAIN data[i] /\ data[i].PPID = p}

IsPidOfSnapshot(p) == \E j \in 1..Len(data) : "PID" \in DOMAIN data[j] /\ data[j].PID = p

RootCandidateRows == {i \in 1..Len(data) : ~IsPidOfSnapshot(data[i].PPID)}

Min(S) == CHOOSE i \in S : \A j \in S : i <= j

Max(S) == CHOOSE i \in S : \A j \in S : j <= i

\* the record of row i of the index under study, None for no row
RecordOrNone(S, i) == IF S = {} THEN None ELSE heap[1].data[i]

IsRecord(p) == p # None /\ p.obj[1] = 1

NavOps == {"get_parent_process", "get_first_child_process", "get_last_child_process",
           "get_next_sibling", "get_prev_sibling"}

UniquePids == \A i, j \in 1..Len(data) : data[i].PID = data[j].PID => i = j

NoDup(seq) == \A i, j \in 1..Len(seq) : seq[i] = seq[j] => i = j

\* following the PPID of row i for k steps leaves the snapshot
RECURSIVE RowChainEnds(_, _)
RowChainEnds(i, k) ==
    IF ~IsPidOfSnapshot(data[i].PPID) THEN TRUE
    ELSE IF k = 0 THEN FALSE
    ELSE RowChainEnds(CHOOSE j \in 1..Len(data) : data[j].PID = data[i].PPID, k - 1)

WellFormed ==
    /\ UniquePids
    /\ Cardinality(RootCandidateRows) = 1
    /\ \A i \in 1..Len(data) : RowChainEnds(i, Len(data))

\* repeated parent_position from x reaches None within k steps
RECURSIVE ParentChainEnds(_, _)
ParentChainEnds(x, k) ==
    IF k = 0 THEN FALSE
    ELSE LET parent == parent_position(heap[1], x)
         IN  parent.exc = "" /\ (parent.ret = None \/ ParentChainEnds(parent.ret, k - 1))

Visited == {walk.visited[i] : i \in 1..Len(walk.visited)}

\* C1: on a well-formed snapshot (unique pids, exactly one record whose ppid
\* is no pid of the snapshot, no parent cycle) the walk from the root over
\* first child / next sibling / parent raises nothing, visits no record
\* twice, takes at most three steps per record, and when it ends it has
\* visited every record of the snapshot.
C1_WalkVisitsEachOnce ==
    (pc = "tree" /\ WellFormed) =>
        /\ walk.pc # "raised"
        /\ NoDup(walk.visited)
        /\ walk.steps <= 3 * Len(data)
        /\ Visited \subseteq Records(heap)
        /\ walk.pc = "done" => Visited = Records(heap)

C1_Witness ==
    /\ pc = "tree" /\ WellFormed /\ walk.pc = "done"
    /\ Len(walk.visited) = 3
    /\ root # heap[1].data[1]
    /\ walk.visited[3].data.PPID = root.data.PID

\* C2: get_root_process returns the first record in input order whose ppid is
\* no pid of the snapshot; with candidates present no error is raised, also
\* when there are several and also when the backend looks the root up.
C2_RootIsFirstCandidate ==
    RootCandidateRows # {} =>
        /\ last.op = "get_root_process" =>
              last.exc = "" /\ last.ret = heap[1].data[Min(RootCandidateRows)]
        /\ last.op = "ProcessTreeBackend" =>
              last.exc = "" /\ pc = "tree" /\ root = heap[1].data[Min(RootCandidateRows)]

C2_Witness ==
    /\ last.op = "get_root_process"
    /\ Cardinality(RootCandidateRows) >= 2
    /\ 1 \notin RootCandidateRows
    /\ last.ret = heap[1].data[2]

\* C3: when no record's ppid lies outside the pid set, root lookup fails with
\* NoRootFound, on the ProcessList and while the backend is constructed.
C3_NoRootFound ==
    (last.op \in {"get_root_process", "ProcessTreeBackend"} /\ RootCandidateRows = {}) =>
        last.exc = "NoRootFound"

\* C4: the five navigation methods never raise, whatever position they get.
C4_NavigationTotal == last.op \in NavOps => last.exc = ""

C6_PrevNextInverse ==
    /\ (last.op = "get_next_sibling" /\ IsRecord(last.arg) /\ last.ret # None) =>
          get_prev_sibling(heap[1], last.ret) = Return(last.arg)
    /\ (last.op = "get_prev_sibling" /\ IsRecord(last.arg) /\ last.ret # None) =>
          get_next_sibling(heap[1], last.ret) = Return(last.arg)

C6_Witness ==
    /\ last.op = "get_prev_sibling"
    /\ IsRecord(last.arg)
    /\ last.ret # None
    /\ pid(last.ret) = pid(last.arg)

Answers(pl) ==
    [root |-> get_root_process(pl),
     nav  |-> [q \in NavOps \X {pl.data[i] : i \in 1..Len(pl.data)} |->
                 IF q[1] = "get_parent_process" THEN get_parent_process(pl, q[2])
                 ELSE IF q[1] = "get_first_child_process" THEN get_first_child_process(pl, q[2])
                 ELSE IF q[1] = "get_last_child_process" THEN get_last_child_process(pl, q[2])
                 ELSE IF q[1] = "get_next_sibling" THEN get_next_sibling(pl, q[2])
                 ELSE get_prev_sibling(pl, q[2])]]

\* C8: once a ProcessList is built, no query on it and no construction of
\* another ProcessList changes any of its answers.
C8_ReadOnly ==
    [][heap[1] # None => (heap'[1] # None /\ Answers(heap'[1]) = Answers(heap[1]))]_vars

C8_Witness ==
    /\ heap[2] # None
    /\ Len(heap[2].data) = 1
    /\ last.op = "get_first_child_process"
    /\ IsRecord(last.arg)
    /\ last.ret # None
    /\ pid(heap[2].data[1]) = pid(last.arg)

Malformed(row) ==
    \/ "PID" \notin DOMAIN row
    \/ "PPID" \notin DOMAIN row
    \/ ~IsIntParseable(row.PID)
    \/ ~IsIntParseable(row.PPID)

\* C9: a snapshot with a row whose PID or PPID is missing or not
\* integer-parseable yields no index: construction fails with MalformedRecord,
\* and no later query fails because of the row.
C9_BuildValidates ==
    (pc # "new" /\ \E i \in 1..Len(data) : Malformed(data[i])) =>
        /\ pc = "failed"
        /\ heap[1] = None
        /\ last.exc = "MalformedRecord"

WalkSafe ==
    /\ walk.pc # "raised"
    /\ NoDup(walk.visited)
    /\ walk.steps <= 3 * Len(data)
    /\ \A i \in 1..Len(walk.visited) : ParentChainEnds(walk.visited[i], Len(data) + 1)

\* C10 as stated: whenever root lookup succeeds, duplicate pids included, the
\* walk visits no record twice, ends (at most three steps per record), and
\* the parents of every visited record end in none.
C10_WalkTerminatesAnySnapshot == pc = "tree" => WalkSafe

\* C10 amended: the same for snapshots with unique pids (several root
\* candidates, self-parenting records and cycles among the other records
\* included).
C10_WalkTerminates == (pc = "tree" /\ UniquePids) => WalkSafe

C10_Witness ==
    /\ pc = "tree" /\ UniquePids /\ walk.pc = "done"
    /\ Len(data) = 3
    /\ Cardinality(RootCandidateRows) = 1
    /\ Len(walk.visited) = 1
    /\ \E i \in 1..Len(data) : ~RowChainEnds(i, Len(data))

====
